---- MODULE Spec2Model ----
(***************************************************************************)
(* State machine of src/pages/Index.tsx.  The file holds two variants of   *)
(* the Index component: one without the vault tab (lines 106-114, four     *)
(* tabs, copy only) and one with it (lines 405-443, five tabs, copy and    *)
(* the diagnostic fetch).  SpecCopy is the variant without the vault tab   *)
(* together with the clock that drives its setTimeout callbacks; Spec is   *)
(* the tab / fetch part of the variant with the vault tab.  The copy       *)
(* handler is the same code in both variants and shares no state with the  *)
(* fetch.  SpecFull is the variant with the vault tab with copy and fetch  *)
(* together, within one timeout window; FairSpecCopy is SpecCopy under the *)
(* event loop's scheduling; SpecRender is the render of the vault panel.   *)
(***************************************************************************)
EXTENDS Integers, Sequences, FiniteSets, TLC

VARIABLES
  activeTab,    \* useState('prompt')
  copiedCode,   \* useState<string | null>(null)
  systemInfo,   \* useState<any>(null)
  loading,      \* useState(false)
  fetches,      \* one record per invocation of loadSystemInfo, in call order
  timers,       \* pending setTimeout callbacks: remaining ms, oldest first
  clipboard,    \* the id whose text the system clipboard holds
  lastOp,       \* the handler or callback that ran last
  visitedVault, \* activeTab has been 'vault' at some point since mount
  lastCopyId,   \* id of the latest copyToClipboard call
  sinceCopy,    \* ms since the latest copyToClipboard call, saturating
  sinceClean,   \* ms since the latest copyToClipboard call that found no
                \* timeout pending, saturating
  envFiles,     \* systemInfo.env_files of the cached payload
  panel         \* what the ".env Files Found" section of the vault panel shows

vars == <<activeTab, copiedCode, systemInfo, loading, fetches, timers,
          clipboard, lastOp, visitedVault, lastCopyId, sinceCopy, sinceClean,
          envFiles, panel>>

fetchVars == <<systemInfo, loading, fetches>>
copyVars  == <<copiedCode, timers, clipboard, lastCopyId, sinceCopy, sinceClean>>
renderVars == <<envFiles, panel>>

----------------------------------------------------------------------------
(* Bounds *)

MaxFetches == 3    \* invocations of loadSystemInfo in one behaviour
MaxTimers  == 3    \* setTimeout callbacks pending at once
MaxPaths   == 3    \* entries of env_files
FullFetches == 2   \* invocations of loadSystemInfo in one behaviour of SpecFull
FullTimers  == 1   \* setTimeout callbacks pending at once in SpecFull
TickMs     == 500  \* granularity of the clock

(* Program constants *)

TIMEOUT_MS == 2000

PlainTabs == {"prompt", "schema", "examples", "api"}
VaultTabs == PlainTabs \cup {"vault"}

NoCopy == "<null>"

\* The copy buttons and the tab whose content holds each of them.
CopyIds == {"prompt", "schema", "example-0", "example-1", "example-2"}

TabOfCopyId(id) ==
  CASE id = "prompt" -> "prompt"
    [] id = "schema" -> "schema"
    [] OTHER         -> "examples"

\* What `await response.json()` can resolve to: an object of the
\* DiagnosticPayload shape, another truthy JSON value, a falsy JSON value
\* other than null (0, false, ""), or null.
Bodies == {"payload", "badshape", "falsy", "null"}

Null == [from |-> 0, body |-> "null"]

\* JavaScript truthiness of a systemInfo value (`!systemInfo`, `systemInfo &&`).
Truthy(v) == v.body \in {"payload", "badshape"}

\* The value setSystemInfo(data) stores for the body of invocation i.
Stored(i, body) == IF body = "null" THEN Null ELSE [from |-> i, body |-> body]

ToastOk  == "System info loaded"
ToastErr == "Error"

Min(a, b) == IF a < b THEN a ELSE b
Max(a, b) == IF a > b THEN a ELSE b

\* A field that is absent reads as undefined.
Undefined == "<undefined>"

\* JavaScript truthiness of a string-or-undefined value (`data.error ?`).
TruthyText(x) == x \notin {Undefined, ""}

PathNames == <<".env", "/app/.env", "/app/.env.local", "/etc/.env", "/root/.env">>
Paths == {PathNames[k] : k \in 1..Min(MaxPaths, Len(PathNames))}

\* The entries of env_files in the DiagnosticPayload shape: {content: string}
\* or {error: string}, the empty string included.
Contents == {"", "KEY=value"}
Errors   == {"", "Permission denied"}
EntryValues ==
  {[error |-> Undefined, content |-> c] : c \in Contents}
    \cup {[error |-> e, content |-> Undefined] : e \in Errors}

\* env_files of a payload: absent, or a mapping from paths to entries.
NoEnvFiles == [present |-> FALSE, map |-> <<>>]
EnvFilesValues ==
  {NoEnvFiles} \cup
  {[present |-> TRUE, map |-> m] :
     m \in UNION {[ps -> EntryValues] : ps \in SUBSET Paths}}

Unrendered == [rendered |-> FALSE, noFilesCard |-> FALSE, list |-> FALSE,
               cards |-> <<>>]

InFlight == {i \in DOMAIN fetches : fetches[i].stage \in {"fetch", "json"}}

----------------------------------------------------------------------------
(* Mount *)

Init ==
  /\ activeTab = "prompt"
  /\ copiedCode = NoCopy
  /\ systemInfo = Null
  /\ loading = FALSE
  /\ fetches = <<>>
  /\ timers = <<>>
  /\ clipboard = NoCopy
  /\ lastOp = "mount"
  /\ visitedVault = FALSE
  /\ lastCopyId = NoCopy
  /\ sinceCopy = TIMEOUT_MS
  /\ sinceClean = TIMEOUT_MS
  /\ envFiles = NoEnvFiles
  /\ panel = Unrendered

----------------------------------------------------------------------------
(* loadSystemInfo *)

\* loadSystemInfo up to its first await: setLoading(true) and the request.
LoadSystemInfo(by) ==
  /\ loading' = TRUE
  /\ fetches' = Append(fetches, [by |-> by, stage |-> "fetch", requests |-> 1,
                                 toasts |-> <<>>, wrote |-> FALSE])

\* Finally as it would be if setLoading(false) were missing.
FinallyKeepsLoading == loading' = loading

\* finally { setLoading(false) }
Finally == loading' = FALSE

\* Catch as it would be if the catch block also reset the payload.
CatchClears(i) ==
  /\ fetches' = [fetches EXCEPT ![i].stage = "err",
                                ![i].toasts = Append(@, ToastErr)]
  /\ systemInfo' = Null
  /\ Finally

\* Catch as it would be if the error were swallowed without a toast.
CatchSilent(i) ==
  /\ fetches' = [fetches EXCEPT ![i].stage = "err"]
  /\ systemInfo' = systemInfo
  /\ Finally

\* catch (error) { toast({title: "Error", ...}) } and the finally block.
Catch(i) ==
  /\ fetches' = [fetches EXCEPT ![i].stage = "err",
                                ![i].toasts = Append(@, ToastErr)]
  /\ systemInfo' = systemInfo
  /\ Finally

\* `await fetch(url)` resolves: the function goes on to `await response.json()`.
FetchResolve(i) ==
  /\ i \in DOMAIN fetches
  /\ fetches[i].stage = "fetch"
  /\ fetches' = [fetches EXCEPT ![i].stage = "json"]
  /\ lastOp' = "fetchResolve"
  /\ UNCHANGED renderVars
  /\ UNCHANGED <<activeTab, systemInfo, loading, visitedVault>>
  /\ UNCHANGED copyVars

\* FetchReject as it would be if a failure re-ran the load (an effect that
\* also depended on loading, or a retry in the catch block).
FetchRejectRetry(i) ==
  /\ i \in DOMAIN fetches
  /\ fetches[i].stage = "fetch"
  /\ fetches' = Append([fetches EXCEPT ![i].stage = "err",
                                       ![i].toasts = Append(@, ToastErr)],
                       [by |-> "effect", stage |-> "fetch", requests |-> 1,
                        toasts |-> <<>>, wrote |-> FALSE])
  /\ loading' = TRUE
  /\ systemInfo' = systemInfo
  /\ lastOp' = "fetchReject"
  /\ UNCHANGED renderVars
  /\ UNCHANGED <<activeTab, visitedVault>>
  /\ UNCHANGED copyVars

\* `await fetch(url)` rejects.
FetchReject(i) ==
  /\ i \in DOMAIN fetches
  /\ fetches[i].stage = "fetch"
  /\ Catch(i)
  /\ lastOp' = "fetchReject"
  /\ UNCHANGED renderVars
  /\ UNCHANGED <<activeTab, visitedVault>>
  /\ UNCHANGED copyVars

\* `await response.json()` rejects: the body is not JSON.
JsonReject(i) ==
  /\ i \in DOMAIN fetches
  /\ fetches[i].stage = "json"
  /\ Catch(i)
  /\ lastOp' = "jsonReject"
  /\ UNCHANGED renderVars
  /\ UNCHANGED <<activeTab, visitedVault>>
  /\ UNCHANGED copyVars

\* `await response.json()` resolves to data: setSystemInfo(data), the
\* success toast, and the finally block.
JsonResolve(i, body) ==
  /\ i \in DOMAIN fetches
  /\ fetches[i].stage = "json"
  /\ systemInfo' = Stored(i, body)
  /\ fetches' = [fetches EXCEPT ![i].stage = "ok",
                                ![i].toasts = Append(@, ToastOk),
                                ![i].wrote = TRUE]
  /\ Finally
  /\ lastOp' = "jsonResolve"
  /\ UNCHANGED renderVars
  /\ UNCHANGED <<activeTab, visitedVault>>
  /\ UNCHANGED copyVars

\* The Refresh button of the vault panel: onClick={loadSystemInfo},
\* disabled={loading}; it is rendered only while the vault tab is active.
Refresh ==
  /\ activeTab = "vault"
  /\ ~loading
  /\ Len(fetches) < MaxFetches
  /\ LoadSystemInfo("refresh")
  /\ lastOp' = "refresh"
  /\ UNCHANGED renderVars
  /\ UNCHANGED <<activeTab, systemInfo, visitedVault>>
  /\ UNCHANGED copyVars

----------------------------------------------------------------------------
(* Tabs *)

\* UseEffect as it would be without the `!systemInfo` test.
UseEffectNoPayloadTest(tab) ==
  IF tab = "vault"
    THEN LoadSystemInfo("effect")
    ELSE UNCHANGED <<loading, fetches>>

\* useEffect(() => { if (activeTab === 'vault' && !systemInfo) loadSystemInfo() },
\* [activeTab]), run after the render in which activeTab became tab.
UseEffect(tab) ==
  IF tab = "vault" /\ ~Truthy(systemInfo)
    THEN LoadSystemInfo("effect")
    ELSE UNCHANGED <<loading, fetches>>

\* SetActiveTab as it would be if a tab change also reset the copy indicator.
SetActiveTabResetsCopied(tab) ==
  /\ tab \in VaultTabs
  /\ tab # activeTab
  /\ (tab = "vault" /\ ~Truthy(systemInfo)) => Len(fetches) < MaxFetches
  /\ activeTab' = tab
  /\ UseEffect(tab)
  /\ visitedVault' = (visitedVault \/ tab = "vault")
  /\ lastOp' = "setActiveTab"
  /\ copiedCode' = NoCopy
  /\ UNCHANGED renderVars
  /\ UNCHANGED systemInfo
  /\ UNCHANGED <<timers, clipboard, lastCopyId, sinceCopy, sinceClean>>

\* <Tabs value={activeTab} onValueChange={setActiveTab}> of the variant with
\* the vault tab, and the effect the re-render runs.
SetActiveTab(tab) ==
  /\ tab \in VaultTabs
  /\ tab # activeTab
  /\ (tab = "vault" /\ ~Truthy(systemInfo)) => Len(fetches) < MaxFetches
  /\ activeTab' = tab
  /\ UseEffect(tab)
  /\ visitedVault' = (visitedVault \/ tab = "vault")
  /\ lastOp' = "setActiveTab"
  /\ UNCHANGED renderVars
  /\ UNCHANGED systemInfo
  /\ UNCHANGED copyVars

\* The same handler in the variant without the vault tab: no effect.
SetActiveTabPlain(tab) ==
  /\ tab \in PlainTabs
  /\ tab # activeTab
  /\ activeTab' = tab
  /\ lastOp' = "setActiveTab"
  /\ UNCHANGED renderVars
  /\ UNCHANGED visitedVault
  /\ UNCHANGED fetchVars
  /\ UNCHANGED copyVars

----------------------------------------------------------------------------
(* Copy *)

\* SetTimeout as it would be with half the delay.
SetTimeoutShort == timers' = Append(timers, TIMEOUT_MS \div 2)

\* setTimeout(() => setCopiedCode(null), 2000)
SetTimeout == timers' = Append(timers, TIMEOUT_MS)

\* CopyToClipboard as it would be if a request made while the indicator is
\* set were queued behind it instead of overwriting it.
CopyToClipboardQueued(id) ==
  /\ id \in CopyIds
  /\ activeTab = TabOfCopyId(id)
  /\ Len(timers) < MaxTimers
  /\ clipboard' \in {id, clipboard}
  /\ copiedCode' = (IF copiedCode = NoCopy THEN id ELSE copiedCode)
  /\ SetTimeout
  /\ lastCopyId' = id
  /\ sinceCopy' = 0
  /\ sinceClean' = (IF timers = <<>> THEN 0 ELSE sinceClean)
  /\ lastOp' = "copy"
  /\ UNCHANGED renderVars
  /\ UNCHANGED <<activeTab, visitedVault>>
  /\ UNCHANGED fetchVars

\* copyToClipboard(text, id), called by the copy button of the active tab.
\* navigator.clipboard.writeText returns a promise nobody awaits: the write
\* may or may not take place.
CopyToClipboard(id) ==
  /\ id \in CopyIds
  /\ activeTab = TabOfCopyId(id)
  /\ Len(timers) < MaxTimers
  /\ clipboard' \in {id, clipboard}
  /\ copiedCode' = id
  /\ SetTimeout
  /\ lastCopyId' = id
  /\ sinceCopy' = 0
  /\ sinceClean' = (IF timers = <<>> THEN 0 ELSE sinceClean)
  /\ lastOp' = "copy"
  /\ UNCHANGED renderVars
  /\ UNCHANGED <<activeTab, visitedVault>>
  /\ UNCHANGED fetchVars

\* TimerFires as it would be if the callback did not reset the indicator.
TimerFiresNoReset ==
  /\ timers # <<>>
  /\ Head(timers) = 0
  /\ timers' = Tail(timers)
  /\ copiedCode' = copiedCode
  /\ lastOp' = "timer"
  /\ UNCHANGED renderVars
  /\ UNCHANGED <<activeTab, visitedVault, clipboard, lastCopyId, sinceCopy, sinceClean>>
  /\ UNCHANGED fetchVars

\* The oldest pending timeout callback runs, at or after its due time:
\* setCopiedCode(null).
TimerFires ==
  /\ timers # <<>>
  /\ Head(timers) = 0
  /\ timers' = Tail(timers)
  /\ copiedCode' = NoCopy
  /\ lastOp' = "timer"
  /\ UNCHANGED renderVars
  /\ UNCHANGED <<activeTab, visitedVault, clipboard, lastCopyId, sinceCopy, sinceClean>>
  /\ UNCHANGED fetchVars

\* TickMs of time pass.
Tick ==
  /\ timers' = [k \in DOMAIN timers |-> Max(0, timers[k] - TickMs)]
  /\ sinceCopy' = Min(TIMEOUT_MS, sinceCopy + TickMs)
  /\ sinceClean' = Min(TIMEOUT_MS, sinceClean + TickMs)
  /\ lastOp' = "tick"
  /\ UNCHANGED renderVars
  /\ UNCHANGED <<activeTab, visitedVault, copiedCode, clipboard, lastCopyId>>
  /\ UNCHANGED fetchVars

----------------------------------------------------------------------------
(* Specifications *)

Next ==
  \/ \E tab \in VaultTabs : SetActiveTab(tab)
  \/ Refresh
  \/ \E i \in 1..MaxFetches : FetchResolve(i)
  \/ \E i \in 1..MaxFetches : FetchReject(i)
  \/ \E i \in 1..MaxFetches : JsonReject(i)
  \/ \E i \in 1..MaxFetches, body \in Bodies : JsonResolve(i, body)

Spec == Init /\ [][Next]_vars

NextCopy ==
  \/ \E tab \in PlainTabs : SetActiveTabPlain(tab)
  \/ \E id \in CopyIds : CopyToClipboard(id)
  \/ TimerFires
  \/ Tick

SpecCopy == Init /\ [][NextCopy]_vars

\* The variant with the vault tab within one timeout window: every
\* interleaving of tab changes, copies, Refresh clicks and fetch outcomes
\* that takes place before the first copy timeout falls due.
NextFull ==
  \/ \E tab \in VaultTabs : SetActiveTab(tab) /\ Len(fetches') <= FullFetches
  \/ Refresh /\ Len(fetches') <= FullFetches
  \/ \E i \in 1..FullFetches : FetchResolve(i)
  \/ \E i \in 1..FullFetches : FetchReject(i)
  \/ \E i \in 1..FullFetches : JsonReject(i)
  \/ \E i \in 1..FullFetches, body \in Bodies : JsonResolve(i, body)
  \/ \E id \in CopyIds : CopyToClipboard(id) /\ Len(timers') <= FullTimers

SpecFull == Init /\ [][NextFull]_vars

\* The event loop: time passes, and a timeout callback that is due runs.
FairSpecCopy == SpecCopy /\ WF_vars(Tick) /\ WF_vars(TimerFires)

----------------------------------------------------------------------------
(* The vault panel *)

\* systemInfo.env_files || {}
EnvFilesOrEmpty(ef) == IF ef.present THEN ef.map ELSE <<>>

\* One card of the list: {data.error ? <p>Error: {data.error}</p>
\*                                   : <pre>{data.content}</pre>}
EntryCard(path, data) ==
  IF TruthyText(data.error)
    THEN [path |-> path, kind |-> "error", text |-> data.error]
    ELSE [path |-> path, kind |-> "content", text |-> data.content]

\* EnvFilesSection as it would be if it tested the mapping itself
\* (`systemInfo.env_files ? list : card`) instead of its number of keys.
EnvFilesSectionByPresence(ef) ==
  LET m == EnvFilesOrEmpty(ef) IN
    IF ~ef.present
      THEN [rendered |-> TRUE, noFilesCard |-> TRUE, list |-> FALSE,
            cards |-> <<>>]
      ELSE [rendered |-> TRUE, noFilesCard |-> FALSE, list |-> TRUE,
            cards |-> [p \in DOMAIN m |-> EntryCard(p, m[p])]]

\* The ".env Files Found" section:
\* Object.keys(systemInfo.env_files || {}).length === 0 ? card : list.
EnvFilesSection(ef) ==
  LET m == EnvFilesOrEmpty(ef) IN
    IF Cardinality(DOMAIN m) = 0
      THEN [rendered |-> TRUE, noFilesCard |-> TRUE, list |-> FALSE,
            cards |-> <<>>]
      ELSE [rendered |-> TRUE, noFilesCard |-> FALSE, list |-> TRUE,
            cards |-> [p \in DOMAIN m |-> EntryCard(p, m[p])]]

\* The state once a first fetch has stored a payload of the
\* DiagnosticPayload shape, before the vault panel is rendered with it.
InitRender ==
  /\ activeTab = "vault"
  /\ copiedCode = NoCopy
  /\ systemInfo = Stored(1, "payload")
  /\ loading = FALSE
  /\ fetches = <<[by |-> "effect", stage |-> "ok", requests |-> 1,
                  toasts |-> <<ToastOk>>, wrote |-> TRUE]>>
  /\ timers = <<>>
  /\ clipboard = NoCopy
  /\ lastOp = "jsonResolve"
  /\ visitedVault = TRUE
  /\ lastCopyId = NoCopy
  /\ sinceCopy = TIMEOUT_MS
  /\ sinceClean = TIMEOUT_MS
  /\ envFiles \in EnvFilesValues
  /\ panel = Unrendered

\* The render of the vault panel with the cached payload: {systemInfo && (...)}.
RenderVault ==
  /\ activeTab = "vault"
  /\ Truthy(systemInfo)
  /\ ~panel.rendered
  /\ panel' = EnvFilesSection(envFiles)
  /\ lastOp' = "render"
  /\ UNCHANGED <<activeTab, visitedVault, envFiles>>
  /\ UNCHANGED fetchVars
  /\ UNCHANGED copyVars

NextRender == RenderVault

SpecRender == InitRender /\ [][NextRender]_vars

----------------------------------------------------------------------------
(* Claims about the diagnostic fetch, checked under Spec *)

\* C1: at most one diagnostic fetch is in flight in every reachable state.
C1_AtMostOneInFlight == Cardinality(InFlight) <= 1

TabChangeTo(tab) == activeTab # tab /\ activeTab' = tab

C2_Step ==
  /\ ~visitedVault => Len(fetches) = 0
  /\ (TabChangeTo("vault") /\ ~visitedVault) =>
        Len(fetches) = 0 /\ Len(fetches') = 1
  /\ (TabChangeTo("vault") /\ Truthy(systemInfo)) => fetches' = fetches
  /\ (activeTab' # activeTab /\ activeTab' # "vault") => fetches' = fetches

\* C2: no fetch is started by mount or by selecting a tab other than vault;
\* the first change of activeTab to 'vault' starts exactly one fetch; a
\* change to 'vault' made while a payload is cached starts none.
C2_FirstVaultVisitFetchesOnce == [][C2_Step]_vars

\* A change to 'vault' with a cached payload has just started no fetch: the
\* only fetch ever started is the one of the first visit.
C2_Witness ==
  /\ lastOp = "setActiveTab"
  /\ activeTab = "vault"
  /\ Truthy(systemInfo)
  /\ Len(fetches) = 1

Fails(i) == fetches[i].stage \in {"fetch", "json"} /\ fetches'[i].stage = "err"
Succeeds(i) == fetches[i].stage \in {"fetch", "json"} /\ fetches'[i].stage = "ok"

\* C3: a step in which a fetch fails (the request rejects or the body does
\* not parse) leaves the cached payload as it was and emits the error toast.
C3_FailureKeepsPayload ==
  [][\A i \in DOMAIN fetches :
       Fails(i) => /\ systemInfo' = systemInfo
                   /\ fetches'[i].toasts = <<ToastErr>>]_vars

\* A fetch has just failed while an earlier payload is cached.
C3_Witness ==
  /\ lastOp \in {"fetchReject", "jsonReject"}
  /\ Truthy(systemInfo)
  /\ \E i \in DOMAIN fetches : fetches[i].stage = "err"

\* C4: whenever a fetch is in flight, loading is true (so Refresh is disabled).
C4_InFlightImpliesLoading == InFlight # {} => loading

EffectStarted == {i \in DOMAIN fetches : fetches[i].by = "effect"}

\* C6: over the whole lifetime of the view the tab-change effect starts a
\* fetch at most once.
C6_AutoTriggerAtMostOnce == Cardinality(EffectStarted) <= 1

C6_Step ==
  fetches' # fetches /\ Len(fetches') # Len(fetches) =>
    /\ Len(fetches') = Len(fetches) + 1
    /\ LET f == fetches'[Len(fetches')] IN
         \/ /\ f.by = "effect"
            /\ lastOp' = "setActiveTab"
            /\ TabChangeTo("vault")
            /\ ~Truthy(systemInfo)
         \/ /\ f.by = "refresh"
            /\ lastOp' = "refresh"
            /\ activeTab = "vault" /\ activeTab' = "vault"

\* C6 (amended): the tab-change effect starts a fetch only in a change of
\* activeTab to 'vault' made while no payload is cached, one per such change;
\* every other fetch is started by a Refresh click.
C6_AutoTriggerOnlyWithoutPayload == [][C6_Step]_vars

\* The effect has started a second fetch, after its first one failed.
C6_Witness ==
  /\ Cardinality(EffectStarted) = 2
  /\ fetches[1].by = "effect" /\ fetches[1].stage = "err"
  /\ lastOp = "setActiveTab"

\* C7: a JSON body that lacks the DiagnosticPayload shape is never stored as
\* the cached payload.
C7_BadShapeNotStored == systemInfo.body \in {"null", "payload"}

C8_Record(f) ==
  /\ f.requests = 1
  /\ f.stage \in {"fetch", "json"} => f.toasts = <<>> /\ ~f.wrote
  /\ f.stage = "ok" => f.toasts = <<ToastOk>> /\ f.wrote
  /\ f.stage = "err" => f.toasts = <<ToastErr>> /\ ~f.wrote

C8_Step ==
  /\ \A i \in DOMAIN fetches' : C8_Record(fetches'[i])
  /\ \A i \in DOMAIN fetches :
       /\ Succeeds(i) => systemInfo' \in {Stored(i, body) : body \in Bodies}
       /\ Fails(i) => systemInfo' = systemInfo

\* C8: every invocation of loadSystemInfo issues one request and ends with
\* one toast: the success toast, the payload then being the response of that
\* invocation, or the error toast, the payload then not being written.
C8_OneRequestOneNotification == [][C8_Step]_vars

\* One invocation has ended in success and another in failure.
C8_Witness ==
  /\ \E i \in DOMAIN fetches : fetches[i].stage = "ok"
  /\ \E i \in DOMAIN fetches : fetches[i].stage = "err"

\* C9: a new fetch starts only in a user event (a tab change or a Refresh
\* click); a step in which a fetch fails starts none.
C9_NoAutomaticRetry ==
  [][/\ Len(fetches') > Len(fetches) => lastOp' \in {"setActiveTab", "refresh"}
     /\ (\E i \in DOMAIN fetches : Fails(i)) => Len(fetches') = Len(fetches)]_vars

\* A fetch has just failed with the vault tab active, no payload cached and
\* room for another fetch: nothing is in flight.
C9_Witness ==
  /\ lastOp \in {"fetchReject", "jsonReject"}
  /\ activeTab = "vault"
  /\ ~Truthy(systemInfo)
  /\ InFlight = {}
  /\ Len(fetches) < MaxFetches

----------------------------------------------------------------------------
(* Claims about the copy acknowledgment, checked under SpecCopy *)

Cleared == copiedCode # NoCopy /\ copiedCode' = NoCopy
CopyCalled == Len(timers') = Len(timers) + 1

\* C5: after a call copyToClipboard(text, id) the indicator equals id and it
\* is not cleared sooner than 2000 ms after that call.
C5_NotClearedWithin2000 ==
  [][/\ CopyCalled => copiedCode' = lastCopyId' /\ copiedCode' # NoCopy
     /\ Cleared => sinceCopy >= TIMEOUT_MS]_vars

\* C5 (amended): after a call the indicator equals id, and it is not cleared
\* sooner than 2000 ms after a call that found no timeout pending.
C5_NotClearedWithin2000OfCleanCall ==
  [][/\ CopyCalled => copiedCode' = lastCopyId' /\ copiedCode' # NoCopy
     /\ Cleared => sinceClean >= TIMEOUT_MS]_vars

\* The timeout of a call that found no timeout pending has just cleared the
\* indicator that call set.
C5_Witness ==
  /\ lastOp = "timer"
  /\ copiedCode = NoCopy
  /\ lastCopyId # NoCopy
  /\ timers = <<>>
  /\ sinceCopy = sinceClean

\* C10: the indicator holds the id of the latest request or nothing, and
\* right after a request it holds that request's id.
C10_LastRequestWins ==
  /\ copiedCode \in {NoCopy, lastCopyId}
  /\ lastOp = "copy" => copiedCode = lastCopyId

\* 'schema' has just been copied while the timeout of an earlier copy of
\* 'prompt' is still running: the indicator shows 'schema'.
C10_Witness ==
  /\ lastOp = "copy"
  /\ copiedCode = "schema"
  /\ clipboard = "prompt"
  /\ Len(timers) = 2
  /\ timers[1] > 0

----------------------------------------------------------------------------
(* Further claims about the diagnostic fetch, checked under Spec *)

Completions == {"fetchReject", "jsonReject", "jsonResolve"}

\* C13: whenever no fetch is in flight loading is false, and right after a
\* fetch has completed, with success or failure, loading is false.
C13_OutcomeNeverBlocks ==
  /\ InFlight = {} => ~loading
  /\ lastOp \in Completions => ~loading

\* A fetch has just failed, nothing is in flight and Refresh is enabled.
C13_Witness ==
  /\ lastOp \in {"fetchReject", "jsonReject"}
  /\ InFlight = {}
  /\ ~loading
  /\ activeTab = "vault"

\* C14: a non-null payload implies that some fetch has completed with
\* success, and right after a successful fetch the payload is non-null.
C14_PayloadPresentIffSucceeded ==
  /\ systemInfo # Null => \E i \in DOMAIN fetches : fetches[i].stage = "ok"
  /\ lastOp = "jsonResolve" => systemInfo # Null

LastStarted == Len(fetches)

\* C17: once every fetch has completed, the last-started one with success,
\* the cached payload is the response of the fetch that was started last.
C17_PayloadOfLastStarted ==
  (/\ fetches # <<>>
   /\ InFlight = {}
   /\ fetches[LastStarted].stage = "ok")
    => systemInfo \in {Stored(LastStarted, body) : body \in Bodies}

----------------------------------------------------------------------------
(* Further claims about the copy acknowledgment, checked under FairSpecCopy *)

\* C15: once every scheduled timeout has fired the indicator is null, and a
\* set indicator is always reset eventually.
C15_AcknowledgmentIsTransient ==
  /\ [](timers = <<>> => copiedCode = NoCopy)
  /\ (copiedCode # NoCopy) ~> (copiedCode = NoCopy)

\* After copies of 'prompt' and of 'example-2' the last pending timeout has
\* just fired: the indicator is null.
C15_Witness ==
  /\ lastOp = "timer"
  /\ timers = <<>>
  /\ copiedCode = NoCopy
  /\ lastCopyId = "example-2"
  /\ clipboard = "prompt"

----------------------------------------------------------------------------
(* Claims about the vault panel, checked under SpecRender *)

Keys == DOMAIN EnvFilesOrEmpty(envFiles)

\* C11: for a payload whose env_files is empty or absent the panel shows the
\* "No .env files found" card and no list; for a payload with at least one
\* entry it shows the list, one card per entry, and not that card.
C11_NoFilesCardIffEmpty ==
  panel.rendered =>
    /\ Keys = {} => panel.noFilesCard /\ ~panel.list
    /\ Keys # {} => /\ panel.list /\ ~panel.noFilesCard
                    /\ DOMAIN panel.cards = Keys
                    /\ \A p \in Keys : panel.cards[p].path = p

\* The panel has been rendered for a payload whose env_files is present and
\* empty: it shows the card.
C11_Witness ==
  /\ panel.rendered
  /\ envFiles.present
  /\ Keys = {}
  /\ panel.noFilesCard

\* C12: the card of an entry that has an error field shows the error text
\* and not the content; the card of an entry without one shows its content.
C12_ErrorFieldShowsError ==
  panel.rendered =>
    \A p \in Keys :
      LET data == envFiles.map[p]
          card == panel.cards[p]
      IN  /\ data.error # Undefined =>
                card.kind = "error" /\ card.text = data.error
          /\ data.error = Undefined =>
                card.kind = "content" /\ card.text = data.content

----------------------------------------------------------------------------
(* Claims about the whole view, checked under SpecFull *)

FetchStarted == Len(fetches') = Len(fetches) + 1
FetchCompleted == \E i \in DOMAIN fetches : Fails(i) \/ Succeeds(i)

\* The effect runs loadSystemInfo right after the render of a tab change, so
\* the step of a change to 'vault' holds both operations; every other fetch
\* start and every completion is a step of its own.
C16_Step ==
  /\ activeTab' # activeTab =>
       /\ copiedCode' = copiedCode
       /\ systemInfo' = systemInfo
       /\ fetches' # fetches => activeTab' = "vault" /\ FetchStarted
  /\ CopyCalled =>
       /\ copiedCode' # NoCopy
       /\ activeTab' = activeTab
       /\ loading' = loading
       /\ systemInfo' = systemInfo
       /\ fetches' = fetches
  /\ (FetchStarted /\ lastOp' = "refresh") \/ FetchCompleted =>
       /\ activeTab' = activeTab
       /\ copiedCode' = copiedCode
  /\ FetchStarted => copiedCode' = copiedCode /\ systemInfo' = systemInfo

\* C16: a tab switch leaves the copy indicator and the payload unchanged; a
\* copy leaves activeTab, loading and the payload unchanged; a fetch start or
\* completion leaves activeTab and the copy indicator unchanged.
C16_OperationsKeepTheirFrame == [][C16_Step]_vars

\* A fetch has just stored its payload while the copy indicator is set and
\* another tab than 'vault' is active.
C16_Witness ==
  /\ lastOp = "jsonResolve"
  /\ Truthy(systemInfo)
  /\ copiedCode # NoCopy
  /\ activeTab # "vault"

====
